---- MODULE Spec2Model ----
(***************************************************************************)
(* Model of the cost-of-living scraper: src/main.py drives one run of      *)
(* CostOfLivingScraper (src/src/web_scraper.py): fetch the country list,   *)
(* parse the command-line tokens, fetch every country and requested city   *)
(* (merge_data / fetch_cost_of_living / update_master_columns), export.    *)
(*                                                                         *)
(* Names and labels are modelled by TLC strings.  A page table is the      *)
(* sequence of its row labels; the price of the i-th row is the number i,  *)
(* so a cell of a record tells which row wrote it, and the rows have no    *)
(* third cell (range_data = "").                                           *)
(***************************************************************************)
EXTENDS Integers, Sequences, FiniteSets, TLC

(***************************************************************************)
(* Bounds of the model.                                                    *)
(***************************************************************************)
MaxRows == 2
MaxFetches == 3
MaxPageRows == 1
MaxArgs == 2
MaxMerges == 3
MaxOrderLen == 3
MaxRangeLen == 4

(***************************************************************************)
(* Input universes.                                                        *)
(***************************************************************************)
\* Row labels a page can carry (free text of the first cell of a row).
Labels == {"A", "A_2", "A Low Range"}

\* The tables a page can hold: every label sequence of at most MaxRows rows.
Tables == UNION {[1..n -> Labels] : n \in 0..MaxRows}

\* The tables of the pages served during a whole run (shorter, to keep the
\* runs small).
Pages == UNION {[1..n -> Labels] : n \in 0..MaxPageRows}

\* The location of the k-th stored page when the table branch of
\* fetch_cost_of_living is exercised on its own: a country, then its cities.
StoreLocation(k) ==
  IF k = 1 THEN <<"Japan", "average">> ELSE <<"Japan", "City " \o ToString(k - 1)>>

\* Command-line tokens of --selective.
Tokens == {"Japan", "Hong-Kong-%28China%29", "Tokyo"}

\* Country lists the source's index page can yield (get_country_name_list
\* has already replaced "+" by " " in each name).
SiteCountryLists ==
  { <<>>, <<"Japan">>, <<"Japan", "Hong Kong %28China%29">> }

\* The characters and texts parse_range is exercised on in isolation.
RangeChars == {"1", "2", "-", ".", ",", " ", "$", "<nbsp>", "x"}
RangeTexts == UNION {[1..n -> RangeChars] : n \in 0..MaxRangeLen}

\* Column names and orders update_master_columns is exercised on in isolation.
Cols == {"A", "B", "C"}
NewOrders == UNION {[1..n -> Cols] : n \in 0..MaxOrderLen}

\* The --selective token lists of a run.
ArgLists == UNION {[1..n -> Tokens] : n \in 0..MaxArgs}

(***************************************************************************)
(* Program constants.                                                      *)
(***************************************************************************)
Retries == 3
NaN == "nan"

(***************************************************************************)
(* Generic helpers (Python list / dict primitives).                        *)
(***************************************************************************)
Range(s) == {s[i] : i \in DOMAIN s}

\* list.index(x): 1-based position of the first occurrence.
IndexOf(s, x) == CHOOSE i \in 1..Len(s) : s[i] = x /\ \A j \in 1..(i-1) : s[j] # x

\* Variant: the new entry overwrites the entry at i instead of shifting it.
InsertAt_Overwrite(s, i, x) == SubSeq(s, 1, i) \o <<x>> \o SubSeq(s, i + 2, Len(s))

\* list.insert(i, x) with a 0-based i, 0 <= i <= len(s).
InsertAt(s, i, x) == SubSeq(s, 1, i) \o <<x>> \o SubSeq(s, i + 1, Len(s))

\* d[k] = v on a dict modelled as a function.
SetItem(d, k, v) == (k :> v) @@ d

EmptyDict == <<>>

(***************************************************************************)
(* update_master_columns (web_scraper.py:144-166).                         *)
(***************************************************************************)
\* Variant: no lookup of a column that stands elsewhere in the master list.
MergeStep_NoLookup(master, master_i, new_col) ==
  IF master_i < Len(master) /\ master[master_i + 1] = new_col
    THEN [master |-> master, master_i |-> master_i + 1]
    ELSE [master |-> InsertAt(master, master_i, new_col), master_i |-> master_i + 1]

\* Variant: a new column is appended at the end instead of inserted at master_i.
MergeStep_Append(master, master_i, new_col) ==
  IF master_i < Len(master) /\ master[master_i + 1] = new_col
    THEN [master |-> master, master_i |-> master_i + 1]
  ELSE IF new_col \in Range(master)
    THEN [master |-> master, master_i |-> IndexOf(master, new_col)]
  ELSE [master |-> Append(master, new_col), master_i |-> Len(master) + 1]

\* Variant: after a column found elsewhere, master_i is its position, not
\* the one after it.
MergeStep_JumpOnto(master, master_i, new_col) ==
  IF master_i < Len(master) /\ master[master_i + 1] = new_col
    THEN [master |-> master, master_i |-> master_i + 1]
  ELSE IF new_col \in Range(master)
    THEN [master |-> master, master_i |-> IndexOf(master, new_col) - 1]
  ELSE [master |-> InsertAt(master, master_i, new_col), master_i |-> master_i + 1]

\* Variant: master_i is not advanced past a column that was just inserted.
MergeStep_NoAdvance(master, master_i, new_col) ==
  IF master_i < Len(master) /\ master[master_i + 1] = new_col
    THEN [master |-> master, master_i |-> master_i + 1]
  ELSE IF new_col \in Range(master)
    THEN [master |-> master, master_i |-> IndexOf(master, new_col)]
  ELSE [master |-> InsertAt(master, master_i, new_col), master_i |-> master_i]

\* One iteration of the while loop: the master list and master_i after
\* handling new_col.  master_i is 0-based as in the source.
MergeStep(master, master_i, new_col) ==
  IF master_i < Len(master) /\ master[master_i + 1] = new_col
    THEN [master |-> master, master_i |-> master_i + 1]
  ELSE IF new_col \in Range(master)
    THEN [master |-> master, master_i |-> IndexOf(master, new_col)]
  ELSE [master |-> InsertAt(master, master_i, new_col), master_i |-> master_i + 1]

RECURSIVE MergeLoop(_, _, _, _)
MergeLoop(master, master_i, new_columns_in_order, new_i) ==
  IF new_i < Len(new_columns_in_order)
    THEN LET st == MergeStep(master, master_i, new_columns_in_order[new_i + 1])
         IN  MergeLoop(st.master, st.master_i, new_columns_in_order, new_i + 1)
    ELSE master

UpdateMasterColumns(master, new_columns_in_order) ==
  MergeLoop(master, 0, new_columns_in_order, 0)

(***************************************************************************)
(* Text of cells (web_scraper.py:86-94, 168-192).  A cell text that is     *)
(* cleaned or parsed is a sequence of characters, each a one-character     *)
(* string; NBSP stands for the character '\xa0'.                           *)
(***************************************************************************)
NBSP == "<nbsp>"
Whitespace == {" ", NBSP}
Digits == {"0", "1", "2", "3", "4", "5", "6", "7", "8", "9"}

\* str.replace(old, new): left to right, non-overlapping (old is not empty).
RECURSIVE ReplaceAll(_, _, _)
ReplaceAll(s, old, new) ==
  IF Len(s) < Len(old) THEN s
  ELSE IF SubSeq(s, 1, Len(old)) = old
    THEN new \o ReplaceAll(SubSeq(s, Len(old) + 1, Len(s)), old, new)
  ELSE <<s[1]>> \o ReplaceAll(Tail(s), old, new)

\* str.strip(): leading and trailing whitespace removed.
RECURSIVE LStrip(_)
LStrip(s) == IF s # <<>> /\ s[1] \in Whitespace THEN LStrip(Tail(s)) ELSE s
RECURSIVE RStrip(_)
RStrip(s) ==
  IF s # <<>> /\ s[Len(s)] \in Whitespace THEN RStrip(SubSeq(s, 1, Len(s) - 1)) ELSE s
Strip(s) == RStrip(LStrip(s))

\* str.split(sep) for a one-character sep: the parts around every sep.
RECURSIVE Split(_, _)
Split(s, sep) ==
  IF \A i \in DOMAIN s : s[i] # sep THEN <<s>>
  ELSE LET i == CHOOSE k \in DOMAIN s : s[k] = sep /\ \A j \in 1..(k - 1) : s[j] # sep
       IN  <<SubSeq(s, 1, i - 1)>> \o Split(SubSeq(s, i + 1, Len(s)), sep)

\* The characters of a text joined into one string.
RECURSIVE Join(_)
Join(s) == IF s = <<>> THEN "" ELSE s[1] \o Join(Tail(s))

RECURSIVE StripLeadingZeros(_)
StripLeadingZeros(s) ==
  IF s # <<>> /\ s[1] = "0" THEN StripLeadingZeros(Tail(s)) ELSE s
RECURSIVE StripTrailingZeros(_)
StripTrailingZeros(s) ==
  IF s # <<>> /\ s[Len(s)] = "0"
    THEN StripTrailingZeros(SubSeq(s, 1, Len(s) - 1)) ELSE s

AllDigits(s) == \A i \in DOMAIN s : s[i] \in Digits

\* The decimal literals float() accepts among the texts of the model
\* (no letter of an exponent, "inf" or "nan" occurs in them): optional
\* surrounding whitespace, an optional sign, digits with at most one point
\* and at least one digit.
Signed(s) == s # <<>> /\ s[1] \in {"+", "-"}
Unsigned(s) == IF Signed(Strip(s)) THEN Tail(Strip(s)) ELSE Strip(s)
WholePart(u) == Split(u, ".")[1]
FracPart(u) == IF Len(Split(u, ".")) = 2 THEN Split(u, ".")[2] ELSE <<>>
IsFloatText(s) ==
  LET u == Unsigned(s)
  IN  /\ Len(Split(u, ".")) <= 2
      /\ AllDigits(WholePart(u)) /\ AllDigits(FracPart(u))
      /\ Len(WholePart(u)) + Len(FracPart(u)) >= 1

\* The float a literal denotes, written as Python prints it ("1.0", "0.2").
FloatOf(s) ==
  LET u == Unsigned(s)
      whole == StripLeadingZeros(WholePart(u))
      frac == StripTrailingZeros(FracPart(u))
  IN  (IF Signed(Strip(s)) /\ Strip(s)[1] = "-" THEN "-" ELSE "")
      \o (IF whole = <<>> THEN "0" ELSE Join(whole))
      \o "." \o (IF frac = <<>> THEN "0" ELSE Join(frac))

\* safe_float (168-181): the float, or NaN when float() raises.
SafeFloat(s) == IF IsFloatText(s) THEN FloatOf(s) ELSE NaN

\* The cleaning of lines 91 and 187.
CleanNumberText(s) == Strip(ReplaceAll(ReplaceAll(s, <<NBSP, "$">>, <<>>), <<",">>, <<>>))

\* parse_range (183-192): the unpacking "low, high = cleaned.split('-')"
\* raises ValueError unless the split has exactly two parts, and the except
\* branch returns (nan, nan).
ParseRange(range_string) ==
  LET parts == Split(CleanNumberText(range_string), "-")
  IN  IF Len(parts) = 2
        THEN <<SafeFloat(parts[1]), SafeFloat(parts[2])>>
        ELSE <<NaN, NaN>>

\* The price text and the range text of the i-th row of a page (86-88): the
\* price is the numeral of i (i < 10) followed by '\xa0$', and the row has
\* no third cell.
PriceText(i) == <<ToString(i), NBSP, "$">>
RangeData(i) == <<>>

\* price_clean (91).
PriceClean(i) == CleanNumberText(PriceText(i))

LowRangeName(unique_name) == unique_name \o " Low Range"
HighRangeName(unique_name) == unique_name \o " High Range"

(***************************************************************************)
(* Column Identity Resolver (web_scraper.py:96-111).                       *)
(***************************************************************************)
\* Variant: the count is read before the row itself is counted.
OccurrenceIndex_BeforeCount(rows, i) == Cardinality({j \in 1..(i - 1) : rows[j] = rows[i]})

\* column_name_counts[name] after the i-th row (96-98).
OccurrenceIndex(rows, i) == Cardinality({j \in 1..i : rows[j] = rows[i]})

\* The identity given to a key seen for the first time (107-110).
NewUniqueName(name, occurrence_index) ==
  IF occurrence_index = 1
    THEN name
    ELSE name \o "_" \o ToString(occurrence_index)

\* unique_name of a key under a mapping (104-110).
ResolveName(mapping, key) ==
  IF key \in DOMAIN mapping
    THEN mapping[key]
    ELSE NewUniqueName(key[1], key[2])

\* Variant: the label is recorded instead of the identity that was returned.
RecordMapping_Label(mapping, key) ==
  IF key \in DOMAIN mapping
    THEN mapping
    ELSE SetItem(mapping, key, key[1])

\* The mapping after resolving a key (104-111).
RecordMapping(mapping, key) ==
  IF key \in DOMAIN mapping
    THEN mapping
    ELSE SetItem(mapping, key, NewUniqueName(key[1], key[2]))

(***************************************************************************)
(* The row loop of fetch_cost_of_living (web_scraper.py:72-122).           *)
(***************************************************************************)
\* columns_in_order after a row resolved to unique_name (118-122).
AddColumns(columns_in_order, unique_name) ==
  IF unique_name \in Range(columns_in_order)
    THEN columns_in_order
    ELSE columns_in_order \o
           <<unique_name, LowRangeName(unique_name), HighRangeName(unique_name)>>

\* record after a row resolved to unique_name (113-116).
AddToRecord(record, unique_name, i) ==
  LET range == ParseRange(RangeData(i))
  IN  SetItem(SetItem(SetItem(record,
        unique_name, SafeFloat(PriceClean(i))),
        LowRangeName(unique_name), range[1]),
        HighRangeName(unique_name), range[2])

\* One iteration of "for row in table.find_all('tr')" (83-122).
RowStep(st, rows, i) ==
  LET key == <<rows[i], OccurrenceIndex(rows, i)>>
      unique_name == ResolveName(st.column_mapping, key)
  IN  [column_mapping   |-> RecordMapping(st.column_mapping, key),
       record           |-> AddToRecord(st.record, unique_name, i),
       columns_in_order |-> AddColumns(st.columns_in_order, unique_name),
       resolved         |-> Append(st.resolved, <<key, unique_name>>)]

RECURSIVE RowLoop(_, _, _)
RowLoop(st, rows, i) ==
  IF i <= Len(rows) THEN RowLoop(RowStep(st, rows, i), rows, i + 1) ELSE st

\* The parse of one page with a data table (72-122): the mapping, the
\* record and columns_in_order at line 124, and the (key, identity) pairs
\* resolved on the way.
ParseTable(mapping, rows, country_name, city_name) ==
  RowLoop([column_mapping   |-> mapping,
           record           |-> ("Country" :> country_name) @@ ("City" :> city_name),
           columns_in_order |-> <<"Country", "City">>,
           resolved         |-> <<>>],
          rows, 1)

(***************************************************************************)
(* Name handling (web_scraper.py:194-221, 276).                            *)
(***************************************************************************)
\* arg.replace('-', ' ') on the tokens of the model (212).
ReplaceHyphens(arg) ==
  CASE arg = "Hong-Kong-%28China%29" -> "Hong Kong %28China%29"
    [] OTHER -> arg

\* clean_location_name (194-199) on the names of the model: "%28" -> "(",
\* "%29" -> ")", "+" -> " ".
CleanLocationName(location_name) ==
  CASE location_name = "Hong Kong %28China%29" -> "Hong Kong (China)"
    [] OTHER -> location_name

\* The text logged for a city without data (276).
Location(city_name, country_name_clean) == city_name \o ", " \o country_name_clean

\* current_country before the first country token (208).
None == "<None>"

\* country_city_dict is an insertion-ordered dict: a sequence of entries.
DictKeys(d) == [i \in 1..Len(d) |-> d[i].country]
DictHas(d, k) == \E i \in 1..Len(d) : d[i].country = k
DictGet(d, k) == d[CHOOSE i \in 1..Len(d) : d[i].country = k].cities

\* d[k] = v: an existing key keeps its place and gets the new value.
DictSet(d, k, v) ==
  IF DictHas(d, k)
    THEN [i \in 1..Len(d) |-> IF d[i].country = k
                                THEN [country |-> k, cities |-> v]
                                ELSE d[i]]
    ELSE Append(d, [country |-> k, cities |-> v])

\* One iteration of "for arg in args" (210-219).
ArgStep(st, arg, country_list) ==
  LET arg_clean == ReplaceHyphens(arg)
  IN  IF arg_clean \in Range(country_list)
        THEN [dict |-> DictSet(st.dict, arg_clean, <<>>), current_country |-> arg_clean]
      ELSE IF st.current_country # None
        THEN [dict |-> DictSet(st.dict, st.current_country,
                               Append(DictGet(st.dict, st.current_country), arg_clean)),
              current_country |-> st.current_country]
      ELSE st

RECURSIVE ArgLoop(_, _, _, _)
ArgLoop(st, arguments, i, country_list) ==
  IF i <= Len(arguments)
    THEN ArgLoop(ArgStep(st, arguments[i], country_list), arguments, i + 1, country_list)
    ELSE st

\* parse_city_arguments (201-221).
ParseCityArguments(arguments, country_list) ==
  ArgLoop([dict |-> <<>>, current_country |-> None], arguments, 1, country_list).dict

(***************************************************************************)
(* Tabular export (web_scraper.py:290-300).                                *)
(***************************************************************************)
\* pd.DataFrame(records, columns=columns): one row per record, one cell per
\* entry of columns, NaN where the record has no such key (291).
DataFrame(records, columns) ==
  [i \in 1..Len(records) |->
     [c \in Range(columns) |->
        IF c \in DOMAIN records[i] THEN records[i][c] ELSE NaN]]

\* pd.to_numeric(errors='coerce') on every column but Country and City
\* (294-300).
\* The cells of these columns are the floats that safe_float, parse_range and
\* the fill of DataFrame wrote, which to_numeric and astype('float64') keep.
ToNumeric(table) ==
  [i \in DOMAIN table |->
     [c \in DOMAIN table[i] |-> table[i][c]]]

(***************************************************************************)
(* Control flow of merge_data after a call of fetch_cost_of_living         *)
(* returns (web_scraper.py:247-281).  A position is the next thing the run *)
(* does: pc = "fetch" with the country index ci, the city index cj and the *)
(* URL form, or pc = "export" when the loop over country_list is over.     *)
(***************************************************************************)
\* The cities requested for a country (260-261).
Cities(dict, country_name) ==
  IF DictHas(dict, country_name) THEN DictGet(dict, country_name) ELSE <<>>

\* The next iteration of "for country_name in country_list" (247).
NextCountry(list, i) ==
  IF i < Len(list)
    THEN [pc |-> "fetch", ci |-> i + 1, cj |-> 0, form |-> "country"]
    ELSE [pc |-> "export", ci |-> i, cj |-> 0, form |-> "country"]

\* The next iteration of "for city_name in cities" (262).
NextCity(list, dict, i, j) ==
  IF j < Len(Cities(dict, list[i]))
    THEN [pc |-> "fetch", ci |-> i, cj |-> j + 1, form |-> "primary"]
    ELSE NextCountry(list, i)

\* Variant: a city without data under both forms ends the loops.
AfterCall_Abort(list, dict, i, j, url_form, ok) ==
  CASE url_form = "country" -> NextCity(list, dict, i, 0)
    [] url_form = "primary" ->
         IF ok THEN NextCity(list, dict, i, j)
               ELSE [pc |-> "fetch", ci |-> i, cj |-> j, form |-> "secondary"]
    [] url_form = "secondary" ->
         IF ok THEN NextCity(list, dict, i, j)
               ELSE [pc |-> "export", ci |-> i, cj |-> j, form |-> "country"]

\* Variant: the second form is requested whatever the first form returned.
AfterCall_AlwaysSecondary(list, dict, i, j, url_form, ok) ==
  CASE url_form = "country" -> NextCity(list, dict, i, 0)
    [] url_form = "primary" -> [pc |-> "fetch", ci |-> i, cj |-> j, form |-> "secondary"]
    [] url_form = "secondary" -> NextCity(list, dict, i, j)

\* Variant: a city whose first form failed is left without a second request.
AfterCall_NoFallback(list, dict, i, j, url_form, ok) ==
  CASE url_form = "country" -> NextCity(list, dict, i, 0)
    [] url_form = "primary" -> NextCity(list, dict, i, j)
    [] url_form = "secondary" -> NextCity(list, dict, i, j)

\* Where merge_data goes when the call for the given form returned ok
\* (253-272).
AfterCall(list, dict, i, j, url_form, ok) ==
  CASE url_form = "country" -> NextCity(list, dict, i, 0)
    [] url_form = "primary" ->
         IF ok THEN NextCity(list, dict, i, j)
               ELSE [pc |-> "fetch", ci |-> i, cj |-> j, form |-> "secondary"]
    [] url_form = "secondary" -> NextCity(list, dict, i, j)

\* Variant: every failed call is logged, whatever its form.
MissingAfter_AnyFailure(missing, location, url_form, ok) ==
  IF ~ok THEN Append(missing, location) ELSE missing

\* missing_data when the call for the given form returned ok (275-277).
MissingAfter(missing, location, url_form, ok) ==
  IF url_form = "secondary" /\ ~ok THEN Append(missing, location) ELSE missing

\* Variant: the bound of the retry test is off by one.
RetryAfterError_OffByOne(n, retries) == n < retries

\* "if attempt < retries - 1" (134): a failed attempt is followed by another.
RetryAfterError(n, retries) == n < retries - 1

\* Variant: the new record takes the place of the latest record.
StoreTable_Overwrite(store, rows, country_name, city_name) ==
  LET p == ParseTable(store.column_mapping, rows, country_name, city_name)
  IN  [column_mapping |-> p.column_mapping,
       master_columns |-> UpdateMasterColumns(store.master_columns, p.columns_in_order),
       data           |-> IF store.data = <<>> THEN <<p.record>>
                          ELSE [store.data EXCEPT ![Len(store.data)] = p.record],
       resolved       |-> p.resolved,
       columns_in_order |-> p.columns_in_order]

(***************************************************************************)
(* The table branch of fetch_cost_of_living (72-128) as a function of the  *)
(* scraper's stores.                                                       *)
(***************************************************************************)
StoreTable(store, rows, country_name, city_name) ==
  LET p == ParseTable(store.column_mapping, rows, country_name, city_name)
  IN  [column_mapping |-> p.column_mapping,
       master_columns |-> UpdateMasterColumns(store.master_columns, p.columns_in_order),
       data           |-> Append(store.data, p.record),
       resolved       |-> p.resolved,
       columns_in_order |-> p.columns_in_order]

(***************************************************************************)
(* State.                                                                  *)
(***************************************************************************)
VARIABLES
  args,                   \* args.selective (main.py:7)
  download_all_countries, \* args.all_countries (main.py:9)
  pc,                     \* "main", "parse", "merge", "fetch", "export", "done"
  available_countries,    \* main.py:19
  country_city_dict,      \* main.py:21
  country_list,           \* merge_data's country_list (238-245)
  ci, cj, form,           \* position of merge_data's loops (247, 262, 266-272)
  attempt,                \* loop variable of fetch_cost_of_living (61)
  success,                \* merge_data's local "success" (253, 267, 272)
  data,                   \* self.data
  missing_data,           \* self.missing_data
  master_columns,         \* self.master_columns
  column_mapping,         \* self.column_mapping
  df,                     \* the table save_data_to_parquet writes (291-303)
  calls,                  \* history: the finished calls of fetch_cost_of_living
  last,                   \* history: the latest attempt of fetch_cost_of_living
  last_net,               \* history: the latest network event
  resolved,               \* history: every (key, identity) the resolver produced
  merged,                 \* history: the arguments of update_master_columns
  fetched,                \* history: the row labels of the pages stored
  range_string,           \* the argument of a call of parse_range on its own
  parsed                  \* the result of that call, <<>> before it

vars == <<args, download_all_countries, pc, available_countries,
          country_city_dict, country_list, ci, cj, form, attempt, success,
          data, missing_data, master_columns, column_mapping, df,
          calls, last, last_net, resolved, merged, fetched,
          range_string, parsed>>

unitVars == <<range_string, parsed>>
inputVars == <<args, download_all_countries>>
mainVars == <<available_countries, country_city_dict, country_list>>
posVars == <<pc, ci, cj, form>>
storeVars == <<data, master_columns, column_mapping, resolved, merged, fetched>>
runVars == <<unitVars, inputVars, mainVars, posVars, attempt, success, missing_data, df,
             calls, last, last_net>>

\* The country and city the current call of fetch_cost_of_living is for.
CurCountry == country_list[ci]
CurCountryClean == CleanLocationName(CurCountry)
CurCity == IF form = "country" THEN "average" ELSE Cities(country_city_dict, CurCountry)[cj]

NoAttempt == [outcome |-> "none", n |-> 0, returned |-> TRUE]

(***************************************************************************)
(* Initial state: CostOfLivingScraper.__init__ (11-28) and the parsed      *)
(* command line (main.py:15).                                              *)
(***************************************************************************)
Fresh ==
  /\ pc = "main"
  /\ available_countries = <<>>
  /\ country_city_dict = <<>>
  /\ country_list = <<>>
  /\ ci = 0 /\ cj = 0 /\ form = "country"
  /\ attempt = 0
  /\ success = FALSE
  /\ data = <<>>
  /\ missing_data = <<>>
  /\ master_columns = <<>>
  /\ column_mapping = EmptyDict
  /\ df = <<>>
  /\ calls = <<>>
  /\ last = NoAttempt
  /\ last_net = "none"
  /\ resolved = {}
  /\ merged = <<>>
  /\ fetched = <<>>
  /\ parsed = <<>>

Init ==
  /\ args \in ArgLists
  /\ download_all_countries \in BOOLEAN
  /\ range_string = <<>>
  /\ Fresh

(***************************************************************************)
(* main.py:19 - get_country_name_list (30-45): one request, no sleep; a    *)
(* transport failure yields the empty list.                                *)
(***************************************************************************)
GetCountryNameList ==
  /\ pc = "main"
  /\ \E result \in SiteCountryLists : available_countries' = result
  /\ last_net' = "request"
  /\ pc' = "parse"
  /\ UNCHANGED <<unitVars, inputVars, country_city_dict, country_list, ci, cj, form,
                 attempt, success, storeVars, missing_data, df, calls, last>>

(***************************************************************************)
(* main.py:21 - parse_city_arguments.                                      *)
(***************************************************************************)
ParseArguments ==
  /\ pc = "parse"
  /\ country_city_dict' = ParseCityArguments(args, available_countries)
  /\ pc' = "merge"
  /\ UNCHANGED <<unitVars, inputVars, available_countries, country_list, ci, cj, form,
                 attempt, success, storeVars, missing_data, df, calls, last,
                 last_net>>

(***************************************************************************)
(* merge_data, lines 238-247: choose country_list and enter the loop.      *)
(***************************************************************************)
EnterLoop(list) ==
  LET pos == NextCountry(list, 0)
  IN  /\ country_list' = list
      /\ pc' = pos.pc /\ ci' = pos.ci /\ cj' = pos.cj /\ form' = pos.form

\* 238-241: the flag is set, the list is requested again (no sleep).
MergeAllCountries ==
  /\ pc = "merge"
  /\ download_all_countries
  /\ \E result \in SiteCountryLists : EnterLoop(result)
  /\ last_net' = "request"
  /\ UNCHANGED <<unitVars, inputVars, available_countries, country_city_dict,
                 attempt, success, storeVars, missing_data, df, calls, last>>

\* 242-245: the keys of country_city_dict.
MergeSelected ==
  /\ pc = "merge"
  /\ ~download_all_countries
  /\ EnterLoop(DictKeys(country_city_dict))
  /\ UNCHANGED <<unitVars, inputVars, available_countries, country_city_dict,
                 attempt, success, storeVars, missing_data, df, calls, last,
                 last_net>>

(***************************************************************************)
(* fetch_cost_of_living (47-142), one attempt per step; the step in which  *)
(* the call returns also runs merge_data up to its next call (254-280).    *)
(* Every attempt ends in the "finally" sleep of line 142.                  *)
(***************************************************************************)
Return(ok, outcome) ==
  LET pos == AfterCall(country_list, country_city_dict, ci, cj, form, ok)
  IN  /\ success' = ok
      /\ missing_data' = MissingAfter(missing_data,
                                      Location(CurCity, CurCountryClean), form, ok)
      /\ pc' = pos.pc /\ ci' = pos.ci /\ cj' = pos.cj /\ form' = pos.form
      /\ attempt' = 0
      /\ calls' = Append(calls, [country |-> CurCountry, city |-> CurCity,
                                 form |-> form, outcome |-> outcome, ok |-> ok])
      /\ last' = [outcome |-> outcome, n |-> attempt + 1, returned |-> TRUE]

\* The page has a data table (72-130).
FetchSuccess ==
  /\ pc = "fetch"
  /\ \E rows \in Pages :
       LET st == StoreTable([column_mapping |-> column_mapping,
                             master_columns |-> master_columns,
                             data |-> data],
                            rows, CurCountryClean, CurCity)
       IN  /\ column_mapping' = st.column_mapping
           /\ master_columns' = st.master_columns
           /\ data' = st.data
           /\ resolved' = resolved \cup Range(st.resolved)
           /\ merged' = Append(merged, st.columns_in_order)
           /\ fetched' = Append(fetched, rows)
  /\ Return(TRUE, "table")
  /\ last_net' = "pace"
  /\ UNCHANGED <<unitVars, inputVars, mainVars, df>>

\* The page loads without a data table (68-70).
FetchNoTable ==
  /\ pc = "fetch"
  /\ Return(FALSE, "no table")
  /\ last_net' = "pace"
  /\ UNCHANGED <<unitVars, inputVars, mainVars, storeVars, df>>

\* requests.get or raise_for_status raises RequestException (132-139).
FetchError ==
  /\ pc = "fetch"
  /\ IF RetryAfterError(attempt, Retries)
       THEN /\ attempt' = attempt + 1
            /\ last' = [outcome |-> "error", n |-> attempt + 1, returned |-> FALSE]
            /\ UNCHANGED <<posVars, success, missing_data, calls>>
       ELSE Return(FALSE, "error")
  /\ last_net' = "pace"
  /\ UNCHANGED <<unitVars, inputVars, mainVars, storeVars, df>>

(***************************************************************************)
(* main.py:25 - save_data_to_parquet (283-312).                            *)
(***************************************************************************)
SaveDataToParquet ==
  /\ pc = "export"
  /\ df' = ToNumeric(DataFrame(data, master_columns))
  /\ pc' = "done"
  /\ UNCHANGED <<unitVars, inputVars, mainVars, ci, cj, form, attempt, success,
                 storeVars, missing_data, calls, last, last_net>>

Next ==
  \/ GetCountryNameList
  \/ ParseArguments
  \/ MergeAllCountries
  \/ MergeSelected
  \/ FetchSuccess
  \/ FetchNoTable
  \/ FetchError
  \/ SaveDataToParquet

Spec == Init /\ [][Next]_vars

\* The run is one sequential thread: whenever a step is possible, one is taken.
FairSpec == Spec /\ WF_vars(Next)

(***************************************************************************)
(* The table branch of fetch_cost_of_living on its own: a sequence of      *)
(* pages with a data table is parsed into a fresh scraper.                 *)
(***************************************************************************)
InitStore ==
  /\ args = <<>>
  /\ download_all_countries = FALSE
  /\ range_string = <<>>
  /\ Fresh

FetchTable ==
  /\ Len(data) < MaxFetches
  /\ \E rows \in Tables :
       LET loc == StoreLocation(Len(data) + 1)
           st == StoreTable([column_mapping |-> column_mapping,
                             master_columns |-> master_columns,
                             data |-> data],
                            rows, loc[1], loc[2])
       IN  /\ column_mapping' = st.column_mapping
           /\ master_columns' = st.master_columns
           /\ data' = st.data
           /\ resolved' = resolved \cup Range(st.resolved)
           /\ merged' = Append(merged, st.columns_in_order)
           /\ fetched' = Append(fetched, rows)
  /\ UNCHANGED runVars

NextStore == FetchTable

SpecStore == InitStore /\ [][NextStore]_vars

(***************************************************************************)
(* update_master_columns on its own: arbitrary orders are merged into an   *)
(* initially empty master sequence.                                        *)
(***************************************************************************)
InitMerge ==
  /\ args = <<>>
  /\ download_all_countries = FALSE
  /\ range_string = <<>>
  /\ Fresh

MergeColumns ==
  /\ Len(merged) < MaxMerges
  /\ \E new_columns_in_order \in NewOrders :
       /\ master_columns' = UpdateMasterColumns(master_columns, new_columns_in_order)
       /\ merged' = Append(merged, new_columns_in_order)
  /\ UNCHANGED <<runVars, data, column_mapping, resolved, fetched>>

NextMerge == MergeColumns

SpecMerge == InitMerge /\ [][NextMerge]_vars

(***************************************************************************)
(* parse_range on its own: one call on an arbitrary range text.            *)
(***************************************************************************)
InitRange ==
  /\ args = <<>>
  /\ download_all_countries = FALSE
  /\ range_string \in RangeTexts
  /\ Fresh

CallParseRange ==
  /\ parsed = <<>>
  /\ parsed' = ParseRange(range_string)
  /\ UNCHANGED <<range_string, inputVars, mainVars, posVars, attempt, success,
                 missing_data, df, calls, last, last_net, storeVars>>

NextRange == CallParseRange

SpecRange == InitRange /\ [][NextRange]_vars

(***************************************************************************)
(* Helpers of the properties.                                              *)
(***************************************************************************)
Count(s, x) == Cardinality({i \in DOMAIN s : s[i] = x})

NoDuplicates(s) == \A i, j \in DOMAIN s : s[i] = s[j] => i = j

RECURSIVE IsSubsequence(_, _)
IsSubsequence(a, b) ==
  IF a = <<>> THEN TRUE
  ELSE IF b = <<>> THEN FALSE
  ELSE IF a[1] = b[1] THEN IsSubsequence(Tail(a), Tail(b))
  ELSE IsSubsequence(a, Tail(b))

\* Column names that are resolved identities or their range columns.
ValueColumns(s) == Range(s) \ {"Country", "City"}

\* The table save_data_to_parquet would build from the current stores.
ExportTable == ToNumeric(DataFrame(data, master_columns))

\* The finished calls that failed for the second URL form of a city.
IsFailedCity(c) == c.form = "secondary" /\ ~c.ok
IsStored(c) == c.ok
FailedCities == SelectSeq(calls, IsFailedCity)
StoredCalls == SelectSeq(calls, IsStored)

\* The locations merge_data has to attempt, in order: every country of
\* country_list, each followed by its requested cities.
RECURSIVE Declared(_, _, _)
Declared(list, dict, i) ==
  IF i > Len(list) THEN <<>>
  ELSE <<[country |-> list[i], city |-> "average"]>>
       \o [j \in 1..Len(Cities(dict, list[i])) |->
             [country |-> list[i], city |-> Cities(dict, list[i])[j]]]
       \o Declared(list, dict, i + 1)

\* The locations attempted so far, in order (a city counts once, by its
\* first URL form).
IsFirstForm(c) == c.form \in {"country", "primary"}
Attempted ==
  LET first == SelectSeq(calls, IsFirstForm)
  IN  [k \in 1..Len(first) |-> [country |-> first[k].country, city |-> first[k].city]]

(***************************************************************************)
(* C1 - Once column_mapping holds an identity for a (label, occurrence)    *)
(* key, every resolution of that key, in the same or a later location and  *)
(* whatever the row order, yields that identity, and the entry is never    *)
(* changed or removed: every (key, identity) pair the resolver has ever    *)
(* produced is the entry column_mapping holds now.                         *)
(***************************************************************************)
C1_IdentityStable ==
  \A p \in resolved :
    /\ p[1] \in DOMAIN column_mapping
    /\ column_mapping[p[1]] = p[2]

\* A key resolved in two locations, at different places of their orders.
C1_Witness ==
  /\ Len(merged) >= 2
  /\ \E c \in ValueColumns(merged[1]) \cap ValueColumns(merged[2]) :
       /\ c \in {p[2] : p \in resolved}
       /\ IndexOf(merged[1], c) # IndexOf(merged[2], c)

(***************************************************************************)
(* C2 - The resolved identity is globally unique: two different keys       *)
(* (label, occurrence) never resolve to the same identity.                 *)
(***************************************************************************)
C2_UniqueIdentity ==
  \A k1, k2 \in DOMAIN column_mapping :
    k1 # k2 => column_mapping[k1] # column_mapping[k2]

(***************************************************************************)
(* C3 - After any sequence of successful fetches, every identity the       *)
(* resolver has produced appears exactly once in master_columns, and       *)
(* master_columns has no entry twice.                                      *)
(***************************************************************************)
C3_ExactlyOnce ==
  /\ \A p \in resolved : Count(master_columns, p[2]) = 1
  /\ NoDuplicates(master_columns)

\* Two locations: the second brings an identity the first has, and a new one.
C3_Witness ==
  /\ Len(merged) >= 2
  /\ ValueColumns(merged[1]) \cap ValueColumns(merged[2]) # {}
  /\ ValueColumns(merged[2]) \ ValueColumns(merged[1]) # {}

(***************************************************************************)
(* C4 - update_master_columns only inserts: the master sequence before a   *)
(* call is a subsequence of the master sequence after it.                  *)
(***************************************************************************)
C4_OnlyInserts == [][IsSubsequence(master_columns, master_columns')]_vars

\* A later order put a new column between two columns of the first order.
C4_Witness ==
  /\ Len(merged) >= 2
  /\ \E i \in 2..(Len(master_columns) - 1) :
       /\ master_columns[i] \notin Range(merged[1])
       /\ master_columns[i - 1] \in Range(merged[1])
       /\ master_columns[i + 1] \in Range(merged[1])

(***************************************************************************)
(* C5 - From the empty master sequence, merging <<A, B>> and then          *)
(* <<A, C, B>> leaves the master sequence <<A, C, B>>.                     *)
(***************************************************************************)
C5_Example ==
  merged = << <<"A", "B">>, <<"A", "C", "B">> >> => master_columns = <<"A", "C", "B">>

C5_Witness == merged = << <<"A", "B">>, <<"A", "C", "B">> >>

(***************************************************************************)
(* C6 - As claimed: once merge_data is over, every location for which a    *)
(* fetch yielded no table has no record in data and has exactly one entry  *)
(* in missing_data.                                                        *)
(***************************************************************************)
C6_Original ==
  pc \in {"export", "done"} =>
    \A i \in DOMAIN calls :
      calls[i].outcome = "no table" =>
        /\ \A k \in DOMAIN data :
             ~(data[k]["Country"] = CleanLocationName(calls[i].country)
               /\ data[k]["City"] = calls[i].city)
        /\ Count(missing_data,
                 Location(calls[i].city, CleanLocationName(calls[i].country))) = 1

(***************************************************************************)
(* C6 - As amended: missing_data holds exactly one entry for every         *)
(* request of a city that failed under both URL forms, in order, and       *)
(* nothing else (no entry for a country, none for a city one of whose      *)
(* forms succeeded); and a call that found no table adds no record: data   *)
(* holds one record per successful call and no other.                      *)
(***************************************************************************)
C6_MissingLocations ==
  /\ missing_data =
       [k \in 1..Len(FailedCities) |->
          Location(FailedCities[k].city, CleanLocationName(FailedCities[k].country))]
  /\ Len(data) = Len(StoredCalls)

\* A finished run in which a city had no table under either form and a
\* country had no table.
C6_Witness ==
  /\ pc = "done"
  /\ \E i \in 2..Len(calls) :
       /\ calls[i].form = "secondary" /\ calls[i].outcome = "no table"
       /\ calls[i - 1].form = "primary" /\ calls[i - 1].outcome = "no table"
  /\ \E i \in DOMAIN calls :
       calls[i].form = "country" /\ calls[i].outcome = "no table"

(***************************************************************************)
(* C7 - No field is dropped between accumulation and export: every key of  *)
(* every record is an entry of master_columns, so the exported table has a *)
(* column for every field of every record, and a master column a record    *)
(* lacks is a missing-value cell of its row.                               *)
(***************************************************************************)
C7_NoFieldDropped ==
  \A i \in DOMAIN data :
    /\ DOMAIN data[i] \subseteq Range(master_columns)
    /\ DOMAIN data[i] \subseteq DOMAIN ExportTable[i]
    /\ \A c \in Range(master_columns) \ DOMAIN data[i] : ExportTable[i][c] = NaN

(***************************************************************************)
(* C8 - One call of fetch_cost_of_living makes at most Retries attempts:   *)
(* after a transport failure on an attempt before the last the call goes   *)
(* on with the next attempt, after one on the last attempt the call has    *)
(* returned False, and after a page without a data table the call has      *)
(* returned False at once.                                                 *)
(***************************************************************************)
C8_BoundedRetries ==
  /\ last.n <= Retries
  /\ attempt < Retries
  /\ (last.outcome = "error" /\ last.n < Retries) =>
       (~last.returned /\ pc = "fetch" /\ attempt = last.n)
  /\ (last.outcome = "error" /\ last.n = Retries) =>
       (last.returned /\ ~success /\ attempt = 0)
  /\ last.outcome = "no table" =>
       (last.returned /\ ~success /\ attempt = 0)
  /\ last.outcome = "table" =>
       (last.returned /\ success /\ attempt = 0)

\* A call that ended on the transport failure of its last attempt.
C8_Witness ==
  /\ last.outcome = "error" /\ last.n = Retries /\ last.returned
  /\ calls # <<>> /\ calls[Len(calls)].outcome = "error"

(***************************************************************************)
(* C9 - A run never aborts on a location failure and always finishes:      *)
(* whatever the outcomes of the fetches, the run reaches "done", and then  *)
(* every country of merge_data's country_list and every city requested for *)
(* it has been attempted, in the declared order.  The declared locations   *)
(* are those of the list merge_data iterates (238-245): the keys of        *)
(* country_city_dict, or the source's list when the flag is set.           *)
(***************************************************************************)
C9_RunFinishes ==
  /\ <>(pc = "done")
  /\ [](pc = "done" => Attempted = Declared(country_list, country_city_dict, 1))

\* A finished run in which a call that exhausted its retries and a call
\* without a data table were each followed by further locations.
C9_Witness ==
  /\ pc = "done"
  /\ \E i \in 1..(Len(calls) - 1) : calls[i].outcome = "error"
  /\ \E i \in 1..(Len(calls) - 1) : calls[i].outcome = "no table"
  /\ Len(Attempted) >= 2

(***************************************************************************)
(* C10 - Between any two consecutive outbound requests of a run there is   *)
(* a pacing sleep: whenever the run is about to send a request, the        *)
(* latest network event is not a request.                                  *)
(***************************************************************************)
C10_PacedRequests ==
  (pc = "fetch" \/ (pc = "merge" /\ download_all_countries)) => last_net # "request"

(***************************************************************************)
(* C11 - parse_range on a non-empty range text returns (missing, missing)  *)
(* whenever the split on the hyphen does not yield exactly two parts or    *)
(* either side fails to parse as a number, and two numbers only when both  *)
(* sides parse.                                                            *)
(***************************************************************************)
RangeParts == Split(CleanNumberText(range_string), "-")
BothSidesParse ==
  /\ Len(RangeParts) = 2
  /\ IsFloatText(RangeParts[1])
  /\ IsFloatText(RangeParts[2])

C11_RangeAllOrNothing ==
  (parsed # <<>> /\ range_string # <<>>) =>
    /\ Len(parsed) = 2
    /\ ~BothSidesParse => parsed = <<NaN, NaN>>
    /\ BothSidesParse => (parsed[1] # NaN /\ parsed[2] # NaN)

(***************************************************************************)
(* C12 - After at least one successful fetch, master_columns starts with   *)
(* Country, City, and every resolved identity in it is immediately         *)
(* followed by its Low Range and then its High Range column: one value     *)
(* column and two range columns per distinct identity, kept together.      *)
(***************************************************************************)
Identities == {p[2] : p \in resolved}

C12_ColumnsGrouped ==
  data # <<>> =>
    /\ Len(master_columns) = 2 + 3 * Cardinality(Identities)
    /\ master_columns[1] = "Country"
    /\ master_columns[2] = "City"
    /\ \A u \in Identities :
         /\ u \in Range(master_columns)
         /\ IndexOf(master_columns, u) + 2 <= Len(master_columns)
         /\ master_columns[IndexOf(master_columns, u) + 1] = LowRangeName(u)
         /\ master_columns[IndexOf(master_columns, u) + 2] = HighRangeName(u)

(***************************************************************************)
(* C13 - The identity first given to a key is the label when the           *)
(* occurrence index is 1 and the label, "_" and the index otherwise, and   *)
(* the occurrence index of a row is 1 plus the number of earlier rows of   *)
(* the same page with the same label.                                      *)
(***************************************************************************)
ExpectedKey(rows, i) ==
  <<rows[i], 1 + Cardinality({j \in 1..(i - 1) : rows[j] = rows[i]})>>

ExpectedIdentity(key) ==
  IF key[2] = 1 THEN key[1] ELSE key[1] \o "_" \o ToString(key[2])

C13_FirstIdentity ==
  /\ \A p \in resolved :
       /\ p[2] = ExpectedIdentity(p[1])
       /\ (p[2] = p[1][1]) <=> (p[1][2] = 1)
  /\ {p[1] : p \in resolved} =
       UNION {{ExpectedKey(fetched[k], i) : i \in DOMAIN fetched[k]} : k \in DOMAIN fetched}
  /\ \A k \in DOMAIN fetched : \A i \in DOMAIN fetched[k] :
       /\ ExpectedKey(fetched[k], i) \in DOMAIN column_mapping
       /\ column_mapping[ExpectedKey(fetched[k], i)]
            = ExpectedIdentity(ExpectedKey(fetched[k], i))
       /\ ExpectedIdentity(ExpectedKey(fetched[k], i)) \in DOMAIN data[k]

\* A page with two rows of one label, resolved to the label and to label_2.
C13_Witness ==
  \E k \in DOMAIN fetched :
    /\ Len(fetched[k]) >= 2
    /\ fetched[k][1] = "A" /\ fetched[k][2] = "A"
    /\ <<<<"A", 1>>, "A">> \in resolved
    /\ <<<<"A", 2>>, "A_2">> \in resolved

(***************************************************************************)
(* C14 - When the orders merged so far are consistent with one global      *)
(* order, every one of them is a subsequence of the master sequence.       *)
(***************************************************************************)
RECURSIVE GlobalOrders(_)
GlobalOrders(S) ==
  IF S = {} THEN {<<>>}
  ELSE UNION {{<<x>> \o q : q \in GlobalOrders(S \ {x})} : x \in S}

ConsistentOrders ==
  \E g \in GlobalOrders(Cols) : \A k \in DOMAIN merged : IsSubsequence(merged[k], g)

C14_OrderPreserved ==
  ConsistentOrders => \A k \in DOMAIN merged : IsSubsequence(merged[k], master_columns)

(***************************************************************************)
(* C14 - As amended: when the orders merged so far are consistent with one *)
(* global order, the first of them is a subsequence of the master          *)
(* sequence, and every column that was new when its order was merged       *)
(* stands in the master sequence after the column that precedes it in that *)
(* order; columns already in the master sequence keep their places.        *)
(***************************************************************************)
SeenBefore(k) == UNION {Range(merged[j]) : j \in 1..(k - 1)}

C14_NewAfterPredecessor ==
  ConsistentOrders =>
    /\ merged # <<>> => IsSubsequence(merged[1], master_columns)
    /\ \A k \in DOMAIN merged : \A n \in 2..Len(merged[k]) :
         merged[k][n] \notin SeenBefore(k) =>
           /\ merged[k][n] \in Range(master_columns)
           /\ merged[k][n - 1] \in Range(master_columns)
           /\ IndexOf(master_columns, merged[k][n - 1])
                < IndexOf(master_columns, merged[k][n])

\* Consistent orders, one of which is no subsequence of the master sequence
\* although its new column was put after its predecessor.
C14_Witness ==
  /\ ConsistentOrders
  /\ \E k \in DOMAIN merged : \E n \in 2..Len(merged[k]) :
       /\ k >= 2
       /\ merged[k][n] \notin SeenBefore(k)
       /\ ~IsSubsequence(merged[k], master_columns)

(***************************************************************************)
(* C15 - In update_master_columns a column of the new order that is not    *)
(* yet in the master sequence is inserted directly after the master        *)
(* position of the element that precedes it in the new order, and at       *)
(* position 0 when it is the first element of the new order.               *)
(***************************************************************************)
\* The master sequence after the first n columns of the order of this call.
MasterAfter(new, n) ==
  IF n = Len(new) THEN master_columns'
  ELSE UpdateMasterColumns(master_columns, SubSeq(new, 1, n))

InsertedAfterPredecessor(new, n) ==
  LET before == MasterAfter(new, n - 1)
      at == IF n = 1 THEN 0 ELSE IndexOf(before, new[n - 1])
  IN  new[n] \notin Range(before) =>
        MasterAfter(new, n) =
          SubSeq(before, 1, at) \o <<new[n]>> \o SubSeq(before, at + 1, Len(before))

C15_InsertPosition ==
  [][merged' # merged =>
       LET new == merged'[Len(merged')]
       IN  \A n \in 1..Len(new) : InsertedAfterPredecessor(new, n)]_vars

\* A call that inserted its first element B at position 0 and the new column
\* C directly after its predecessor A.
C15_Witness ==
  /\ merged = << <<"A">>, <<"B", "A", "C">> >>
  /\ master_columns = <<"B", "A", "C">>

(***************************************************************************)
(* C16 - After merge_data each processed location has exactly one          *)
(* recorded outcome: a location one of whose calls succeeded has added     *)
(* exactly one record and no missing_data entry, a city whose two forms    *)
(* both failed exactly one missing_data entry and no record, a country     *)
(* whose fetch failed neither.                                             *)
(***************************************************************************)
\* A location is the call for its first form with the calls for the second
\* form that follow it.
LocationStarts == {i \in DOMAIN calls : IsFirstForm(calls[i])}
CallsOf(i) == {j \in i..Len(calls) : \A m \in (i + 1)..j : calls[m].form = "secondary"}
SuccessesOf(i) == Cardinality({j \in CallsOf(i) : calls[j].ok})
FailedCityStarts ==
  {i \in LocationStarts : calls[i].form = "primary" /\ SuccessesOf(i) = 0}

\* The call that returns in this step.
Returned == calls' # calls
ReturnedCall == calls'[Len(calls')]

C16_OneOutcomeEach ==
  /\ [](pc \in {"export", "done"} =>
         /\ \A i \in LocationStarts : SuccessesOf(i) <= 1
         /\ Len(data) = Cardinality({i \in LocationStarts : SuccessesOf(i) = 1})
         /\ Len(missing_data) = Cardinality(FailedCityStarts)
         /\ \A i \in FailedCityStarts :
              Count(missing_data,
                    Location(calls[i].city, CleanLocationName(calls[i].country)))
                = Cardinality({k \in FailedCityStarts :
                                 /\ calls[k].city = calls[i].city
                                 /\ calls[k].country = calls[i].country}))
  /\ [][Returned =>
         /\ ReturnedCall.ok =>
              /\ Len(data') = Len(data) + 1
              /\ missing_data' = missing_data
         /\ (~ReturnedCall.ok /\ ReturnedCall.form = "secondary") =>
              /\ data' = data
              /\ Len(missing_data') = Len(missing_data) + 1
         /\ (~ReturnedCall.ok /\ ReturnedCall.form # "secondary") =>
              /\ data' = data
              /\ missing_data' = missing_data]_vars

\* A finished run with a country that was stored, a city of it that failed
\* under both forms, and a country whose fetch failed.
C16_Witness ==
  /\ pc = "done"
  /\ Len(calls) = 4
  /\ calls[1].form = "country" /\ calls[1].ok
  /\ calls[2].form = "primary" /\ ~calls[2].ok
  /\ calls[3].form = "secondary" /\ ~calls[3].ok
  /\ calls[4].form = "country" /\ ~calls[4].ok
  /\ Len(data) = 1
  /\ Len(missing_data) = 1

(***************************************************************************)
(* C17 - The second (city-only) URL form is requested for a city exactly   *)
(* when the call for the first (city-country) form returned the failed     *)
(* outcome, directly after that call and once; a country-level call is     *)
(* never followed by a request of the second form.                         *)
(***************************************************************************)
\* The form of the call that follows call i: that of the next finished call,
\* or of the call the run is about to make or is making.
FormAfter(i) ==
  IF i < Len(calls) THEN calls[i + 1].form
  ELSE IF pc = "fetch" THEN form
  ELSE "none"

CityAfter(i) ==
  IF i < Len(calls) THEN calls[i + 1].city
  ELSE IF pc = "fetch" THEN CurCity
  ELSE "none"

C17_FallbackIffPrimaryFailed ==
  /\ (pc = "fetch" /\ form = "secondary") => calls # <<>>
  /\ \A i \in DOMAIN calls :
       /\ (calls[i].form = "primary" /\ ~calls[i].ok) =>
            /\ FormAfter(i) = "secondary"
            /\ CityAfter(i) = calls[i].city
       /\ (calls[i].form = "primary" /\ calls[i].ok) => FormAfter(i) # "secondary"
       /\ calls[i].form \in {"country", "secondary"} => FormAfter(i) # "secondary"
       /\ calls[i].form = "secondary" =>
            /\ i > 1
            /\ calls[i - 1].form = "primary"
            /\ ~calls[i - 1].ok
            /\ calls[i - 1].city = calls[i].city
            /\ calls[i - 1].country = calls[i].country
            /\ calls[i].city # "average"

\* A finished run in which a city's first form failed and its second form
\* was called next, and a failed country fetch was followed by another
\* country.
C17_Witness ==
  /\ pc = "done"
  /\ \E i \in 1..(Len(calls) - 1) :
       /\ calls[i].form = "primary" /\ ~calls[i].ok
       /\ calls[i + 1].form = "secondary"
  /\ \E i \in 1..(Len(calls) - 1) :
       /\ calls[i].form = "country" /\ ~calls[i].ok
       /\ calls[i + 1].form = "country"

(***************************************************************************)
(* C18 - A call of fetch_cost_of_living that returns the failed outcome    *)
(* leaves data, master_columns and column_mapping as they were, and        *)
(* missing_data too: the only change of missing_data is the entry that     *)
(* merge_data appends after the call for the second form of a city         *)
(* returned the failed outcome (the step in which a call returns includes  *)
(* merge_data's lines up to the next call).  The stores are changed only   *)
(* by a call that returns success, which appends exactly one record to     *)
(* data, keeps every earlier record and leaves missing_data alone.         *)
(***************************************************************************)
FailedCallKeepsStores ==
  (Returned /\ ~ReturnedCall.ok) =>
    UNCHANGED <<data, master_columns, column_mapping>>

SuccessAppendsOneRecord ==
  (Returned /\ ReturnedCall.ok) =>
    /\ Len(data') = Len(data) + 1
    /\ SubSeq(data', 1, Len(data)) = data

C18_FailedCallFrame ==
  [][/\ FailedCallKeepsStores
     /\ SuccessAppendsOneRecord
     /\ (Returned /\ ReturnedCall.ok) => missing_data' = missing_data
     /\ <<data, master_columns, column_mapping>>' # <<data, master_columns, column_mapping>>
          => (Returned /\ ReturnedCall.ok)
     /\ missing_data' # missing_data =>
          /\ Returned
          /\ ~ReturnedCall.ok
          /\ ReturnedCall.form = "secondary"
          /\ missing_data' =
               Append(missing_data,
                      Location(ReturnedCall.city, CleanLocationName(ReturnedCall.country)))]_vars

\* Two records and one logged city: a successful call after an earlier
\* record, and failed calls with and without a missing_data entry.
C18_Witness ==
  /\ Len(data) = 2
  /\ Len(missing_data) = 1
  /\ \E i \in DOMAIN calls : ~calls[i].ok /\ calls[i].form = "primary"
  /\ \E i \in DOMAIN calls : ~calls[i].ok /\ calls[i].outcome = "error"

(***************************************************************************)
(* C19 - When the all-countries flag is set, every country of the explicit *)
(* list still gets its country-average fetch and a fetch for each of its   *)
(* requested cities, whatever the country-list requests returned: at the   *)
(* end of such a run every location of country_city_dict has been          *)
(* attempted.                                                              *)
(***************************************************************************)
ExplicitLocations == Range(Declared(DictKeys(country_city_dict), country_city_dict, 1))

C19_ExplicitListKept ==
  (pc = "done" /\ download_all_countries) => ExplicitLocations \subseteq Range(Attempted)

====
